---- MODULE Spec2Model ----
(***************************************************************************)
(* Grading job orchestration and the two-stage grading pipeline of the     *)
(* AITutor server.                                                         *)
(*                                                                         *)
(* Two variants of POST /api/grade exist in the repository:                *)
(*   "perSubmission"  server/routes.ts: one enhancedGradePapers call per   *)
(*                    submission file (services/aiService.ts).             *)
(*   "combined"       the later routes file (unnamed/part_011): all the    *)
(*                    submission files are graded as one submission by     *)
(*                    gradePapersWithDynamicSchema (services/grader.ts),   *)
(*                    whose stage 1 is the analyzer of unnamed/part_015.   *)
(* A deployment runs one of them; the variable orchestration says which.   *)
(*                                                                         *)
(* The server is a single-threaded event loop: the code between two awaits *)
(* runs without interruption, so every action below is one such segment.   *)
(***************************************************************************)
EXTENDS Integers, Sequences, FiniteSets, TLC

\* ------------------------------------------------------------------ bounds
MaxJobs == 1
MaxSubs == 2
MaxRubrics == 1
MaxConcurrent == 2

\* ------------------------------------------------------------------ state
VARIABLES
    orchestration,     \* which POST /api/grade is deployed (see above)
    TESTING_MODE,      \* services/grader.ts: the mock-response switch
    GRADING_PROVIDER,  \* ACTIVE_MODELS.GRADING_PROVIDER, "unset" if absent
    files,             \* the files table: id -> extracted text and headings
    gradingJobs,       \* the in-memory job registry: job id -> job record
    task,              \* per job: where its background task is suspended
    response,          \* the HTTP response sent by the step just taken
    content,           \* response parsing: the text a provider returned
    parsed,            \* response parsing: what the provider function returns
    users,             \* the users table: user id -> row
    usageBefore,       \* the users table as it was before any call
    usageCalls,        \* per incrementUsage call: where it is suspended
    env,               \* process.env: the names that are defined
    modelCall          \* the last getModelWithFallbacks call and its value

vars == << orchestration, TESTING_MODE, GRADING_PROVIDER, files,
           gradingJobs, task, response, content, parsed,
           users, usageBefore, usageCalls, env, modelCall >>

\* ------------------------------------------------------------------ storage
\* File ids a request may name; the stored ones are DOMAIN files.
FileIds == {1, 2, 3}

OriginalName == << "essay.pdf", "notes.pdf", "draft.pdf" >>

\* File 1 has extracted text, file 2 has none. headings are the lines of the
\* text that the section patterns of extractDefaultSections match.
FileTable(headings) ==
    (1 :> [extractedText |-> TRUE, headings |-> headings]) @@
    (2 :> [extractedText |-> FALSE, headings |-> <<>>])

FileTables == { FileTable(<<>>),
                FileTable(<< "Task 1: Design", "Task 2: Build" >>) }

HasText(f) == files[f].extractedText

\* All sequences over S of length lo..hi.
SeqsOf(S, lo, hi) == UNION {[1..n -> S] : n \in lo..hi}

RECURSIVE SumSeq(_)
SumSeq(s) == IF s = <<>> THEN 0 ELSE Head(s) + SumSeq(Tail(s))

\* ------------------------------------------------------------------ results
\* A grading result as the client receives it (JSON). keys is the set of
\* top-level keys that are present with a defined value; a field whose key is
\* absent holds a filler (0, "", the empty function) that nothing reads.
NoSections == [n \in {} |-> [score |-> 0, maxScore |-> 0]]

ResultKeys == {"submissionId", "totalScore", "maxPossibleScore",
               "overallFeedback", "status", "sectionFeedback"}

\* The five keys a provider is asked to return.
ReplyKeys == {"totalScore", "maxPossibleScore", "overallFeedback",
              "status", "sectionFeedback"}

MkResult(keys, sid, status, total, maxp, fb, sf, st) ==
    [keys |-> keys, submissionId |-> sid, status |-> status,
     totalScore |-> total, maxPossibleScore |-> maxp,
     overallFeedback |-> fb, sectionFeedback |-> sf, schema_type |-> st]

\* ------------------------------------------------- stage 1, perSubmission
\* services/aiService.ts: AnalyzedAssignment reduced to what grading reads.
DefaultSections ==
    << [section_name |-> "Introduction & Background", max_score |-> 20],
       [section_name |-> "Methodology & Approach", max_score |-> 20],
       [section_name |-> "Results & Analysis", max_score |-> 20],
       [section_name |-> "Discussion & Conclusion", max_score |-> 20],
       [section_name |-> "Presentation & Documentation", max_score |-> 20] >>

createDefaultAnalysis ==
    [sections |-> DefaultSections, total_marks |-> 100, pass_threshold |-> 50]

\* A falsy field of the parsed object (absent, 0, "") is written 0 or "".
validateSection(s) ==
    [section_name |-> IF s.section_name = "" THEN "Unnamed Section"
                      ELSE s.section_name,
     max_score |-> IF s.max_score = 0 THEN 20 ELSE s.max_score]

validateAnalyzedAssignment(a) ==
    LET secs == IF a.sections = <<>> THEN DefaultSections ELSE a.sections
        v == [i \in DOMAIN secs |-> validateSection(secs[i])]
    IN [sections |-> v,
        total_marks |-> IF a.total_marks = 0
                        THEN SumSeq([i \in DOMAIN v |-> v[i].max_score])
                        ELSE a.total_marks,
        pass_threshold |-> IF a.pass_threshold = 0 THEN 50
                           ELSE a.pass_threshold]

\* What the analysis provider can answer. kind "throw" is a rejected call,
\* "unparsable" is text JSON.parse rejects, "object" is a parsed object whose
\* fields follow.
IntroBody == << [section_name |-> "Intro", max_score |-> 10],
                [section_name |-> "Body", max_score |-> 20] >>

FailureKinds == {"throw", "unparsable"}

AnalysisFailure(kind) ==
    [kind |-> kind, sections |-> <<>>, total_marks |-> 0, pass_threshold |-> 0]

AnalysisObjects ==
    [kind : {"object"},
     sections : {<<>>, IntroBody,
                 << [section_name |-> "", max_score |-> 0],
                    [section_name |-> "Body", max_score |-> 20] >>},
     total_marks : {0, 30},
     pass_threshold : {0, 60}]

AnalysisReplies == AnalysisObjects \cup {AnalysisFailure(k) : k \in FailureKinds}

\* analyzeWithOpenAI / analyzeWithGemini: every failure yields the default.
analyzeWithProvider(reply) ==
    IF reply.kind # "object" THEN createDefaultAnalysis
    ELSE validateAnalyzedAssignment(reply)

\* ------------------------------------------------- stage 2, perSubmission
\* The answer of a grading provider: a failure kind, or the parsed JSON
\* object. A section entry carries the score and the maximum the provider
\* stated (max_score in aiService.ts, maxScore in mockGrader.ts).
MkReply(kind, keys, status, total, maxp, fb, sf) ==
    [kind |-> kind, keys |-> keys, status |-> status, totalScore |-> total,
     maxPossibleScore |-> maxp, overallFeedback |-> fb,
     sectionFeedback |-> sf]

GradingFailure(kind) == MkReply(kind, {}, "", 0, 0, "", NoSections)

Entry(score, max) == [score |-> score, maxScore |-> max]

Sf(intro, body) == ("Intro" :> Entry(intro, 10)) @@ ("Body" :> Entry(body, 20))

\* A parsed object with all five keys, or without "status" when st = "".
Obj(st, total, sf) ==
    MkReply("object", IF st = "" THEN ReplyKeys \ {"status"} ELSE ReplyKeys,
            st, total, 30, "Good work", sf)

Statuses == {"pass", "fail", "pending", "???", ""}

SectionAnswers ==
    { Sf(8, 10), Sf(2, 4), Sf(15, 10), "Intro" :> Entry(8, 10),
      Sf(8, 10) @@ ("Style" :> Entry(0, 5)) }

GradingReplies ==
    { Obj(st, 18, Sf(8, 10)) : st \in Statuses }
    \cup { Obj("pass", total, sf) : total \in {6, 18}, sf \in SectionAnswers }
    \cup { Obj("fail", 6, Sf(2, 4)) }
    \cup { MkReply("object", {}, "", 0, 0, "", NoSections) }
    \cup { GradingFailure(k) : k \in FailureKinds \cup {"falsy"} }

\* gradeWithOpenAI / gradeWithGemini / gradeWithClaude: the fields of the
\* parsed object are copied as they are.
gradeWithModel(file, r) ==
    MkResult({"submissionId"} \cup r.keys, file, r.status, r.totalScore,
             r.maxPossibleScore, r.overallFeedback, r.sectionFeedback, "")

generateErrorResult(file) ==
    MkResult(ResultKeys, file, "pending", 0, 100,
             "Error during grading process", NoSections, "")

Providers == {"openai", "gemini", "anthropic"}

\* ------------------------------------------------- stage 1, combined
\* unnamed/part_015 (services/analyzer.ts) and shared/schema.ts.
SchemaKinds == {"qualitative", "numerical", "weighted", "hybrid"}

\* The criteria of a section, by shape: "qualitative" has the five bands,
\* "numerical" has a non-empty mark_ranges list, "none" has neither.
Section(name, shape) == [section_name |-> name, criteria |-> shape]

\* The parsed object of an analysis provider, reduced to what
\* validateAssignmentSchema inspects.
Candidate(kind, title, type, isArray, sections, instr, req) ==
    [kind |-> kind, titleIsString |-> title, marking_schema_type |-> type,
     sectionsIsArray |-> isArray, sections |-> sections,
     instructionsIsString |-> instr, requirementsIsString |-> req]

CandidateFailure(kind) == Candidate(kind, FALSE, "", FALSE, <<>>, FALSE, FALSE)

TwoSections(shape) == << Section("Intro", shape), Section("Body", shape) >>

CandidateObjects ==
    { Candidate("object", t, ty, arr, secs, i, r) :
        t \in BOOLEAN,
        ty \in SchemaKinds \cup {"bogus"},
        arr \in BOOLEAN,
        secs \in {<<>>, TwoSections("qualitative"), TwoSections("none")},
        i \in BOOLEAN,
        r \in BOOLEAN }

SchemaReplies ==
    {c \in CandidateObjects : c.sectionsIsArray \/ c.sections = <<>>}
    \cup {CandidateFailure(k) : k \in FailureKinds \cup {"falsy"}}

validateAnySections(c) ==
    /\ c.titleIsString
    /\ c.marking_schema_type \in SchemaKinds
    /\ c.sectionsIsArray
    /\ c.instructionsIsString
    /\ c.requirementsIsString

validateAssignmentSchema(c) ==
    /\ c.titleIsString
    /\ c.marking_schema_type \in SchemaKinds
    /\ c.sectionsIsArray
    /\ Len(c.sections) > 0
    /\ c.instructionsIsString
    /\ c.requirementsIsString

\* if (result && validateAssignmentSchema(result)): null comes from a failed
\* call or parse, and a falsy parsed value fails the first conjunct.
analyzerAccepts(c) == c.kind = "object" /\ validateAssignmentSchema(c)

SchemaOf(c) ==
    [marking_schema_type |-> c.marking_schema_type, sections |-> c.sections]

FallbackSectionNames ==
    << "Understanding and Analysis", "Implementation and Execution",
       "Communication and Presentation", "Critical Thinking and Evaluation" >>

\* headings: the names the section patterns match in the materials' text.
extractDefaultSections(headings) ==
    IF Len(headings) = 0 THEN FallbackSectionNames
    ELSE SubSeq(headings, 1, IF Len(headings) < 8 THEN Len(headings) ELSE 8)

createDefaultSchema(headings) ==
    LET names == extractDefaultSections(headings)
    IN [marking_schema_type |-> "qualitative",
        sections |-> [i \in DOMAIN names |-> Section(names[i], "qualitative")]]

\* ------------------------------------------------- stage 2, combined
\* services/grader.ts.
aiProvidersOpenAIFirst == << "openai", "gemini", "anthropic" >>

\* const aiProviders = ['gemini', 'anthropic', 'openai'], in both stages.
aiProviders == << "gemini", "anthropic", "openai" >>

FallbackKeys == {"overall_grade", "section_grades", "overall_feedback",
                 "recommendations", "schema_type"}

\* return {...result, schema_type}
gradedWithSchema(schema, r) ==
    MkResult(r.keys \cup {"schema_type"}, 0, r.status, r.totalScore,
             r.maxPossibleScore, r.overallFeedback, r.sectionFeedback,
             schema.marking_schema_type)

generateFallbackGradingResult ==
    MkResult(FallbackKeys, 0, "", 0, 0, "", NoSections, "qualitative")

\* The submissionId 'mock-submission' of an empty submission list.
MockSubmission == 0

mockGradingResultChecked(submissionFiles) ==
    IF submissionFiles = <<>> \/ ~HasText(submissionFiles[1])
    THEN generateFallbackGradingResult
    ELSE MkResult(FallbackKeys \cup {"submissionId", "totalScore",
                                     "maxPossibleScore", "status"},
                  submissionFiles[1], "pass", 75, 100, "", NoSections,
                  "qualitative")

\* {...MOCK_GRADING_RESULT, submissionId, submissionName, totalScore: 75, ...}
mockGradingResult(submissionFiles) ==
    MkResult(FallbackKeys \cup {"submissionId", "totalScore",
                                "maxPossibleScore", "status"},
             IF submissionFiles = <<>> THEN MockSubmission
             ELSE submissionFiles[1],
             "pass", 75, 100, "", NoSections, "qualitative")

\* ------------------------------------------------- response parsing
\* services/grader.ts 138-240 and unnamed/part_015 87-190. A text is a
\* sequence of tokens: the fence ```, the tag json, a newline, the JSON
\* number 1 and the double quote. JSON.parse accepts, between optional
\* whitespace, the number 1 or a string literal of tokens other than the
\* quote and the raw newline.
MaxText == 4

\* The double quote character and the run of three backticks, as tokens.
Quote == "QUOTE"

Fence == "FENCE"

Tokens == {Fence, "json", "\n", "1", Quote}

Texts == SeqsOf(Tokens, 0, MaxText)

RECURSIVE TrimLeft(_)
TrimLeft(t) ==
    IF t # <<>> /\ Head(t) = "\n" THEN TrimLeft(Tail(t)) ELSE t

RECURSIVE TrimRight(_)
TrimRight(t) ==
    IF t # <<>> /\ t[Len(t)] = "\n"
    THEN TrimRight(SubSeq(t, 1, Len(t) - 1)) ELSE t

\* return null: a failed call, empty content, or a parse error caught.
Null == [kind |-> "null", chars |-> <<>>]

JSONparse(t) ==
    LET v == TrimRight(TrimLeft(t))
    IN IF v = << "1" >> THEN [kind |-> "number", chars |-> <<>>]
       ELSE IF /\ Len(v) >= 2
               /\ v[1] = Quote /\ v[Len(v)] = Quote
               /\ \A i \in 2..(Len(v) - 1) : v[i] \notin {Quote, "\n"}
       THEN [kind |-> "string", chars |-> SubSeq(v, 2, Len(v) - 1)]
       ELSE Null

IsJson(t) == JSONparse(t) # Null

\* content.match(/```json\s*([\s\S]*?)\s*```/): the leftmost opening fence
\* with its tag, the first fence after it, and the text between the two
\* without its surrounding whitespace; <<>> stands for no match.
jsonMatch(t) ==
    LET opens == {i \in 1..(Len(t) - 1) : t[i] = Fence /\ t[i + 1] = "json"}
    IN IF opens = {} THEN << >>
       ELSE LET i == CHOOSE x \in opens : \A y \in opens : x <= y
                closes == {c \in (i + 2)..Len(t) : t[c] = Fence}
            IN IF closes = {} THEN << >>
               ELSE LET c == CHOOSE x \in closes : \A y \in closes : x <= y
                    IN << TrimRight(TrimLeft(SubSeq(t, i + 2, c - 1))) >>

\* gradeWithGemini, gradeWithAnthropic, analyzeWithGemini, analyzeWithAnthropic.
parseFenced(t) ==
    IF jsonMatch(t) # << >> THEN JSONparse(jsonMatch(t)[1]) ELSE JSONparse(t)

\* gradeWithOpenAI, analyzeWithOpenAI: if (!content) return null, then
\* JSON.parse(content).
parsePlain(t) == IF t = << >> THEN Null ELSE JSONparse(t)

extractJson(provider, t) ==
    IF provider = "openai" THEN parsePlain(t) ELSE parseFenced(t)

\* A JSON text wrapped in a markdown code fence.
Wrap(t) == << Fence, "json", "\n" >> \o t \o << "\n", Fence >>

NoContent == [provider |-> "", json |-> << >>, text |-> << >>]

NotParsed == [kind |-> "none", chars |-> <<>>]

\* ------------------------------------------------------------------ jobs
NoSchema == [marking_schema_type |-> "", sections |-> <<>>]

NoResponse == [kind |-> "none", code |-> 0, jobId |-> 0, status |-> "",
               progress |-> 0, results |-> <<>>]

Respond(kind, code, jobId, status, progress, results) ==
    [kind |-> kind, code |-> code, jobId |-> jobId, status |-> status,
     progress |-> progress, results |-> results]

\* Math.round((num / den) * 100) for 0 <= num < den.
RoundPercent(num, den) == (200 * num + den) \div (2 * den)

CompleteKeepProgress(job) ==
    [job EXCEPT !.status = "complete", !.completedAt = TRUE]

\* status 'complete', progress 100, completedAt.
Complete(job) ==
    [job EXCEPT !.status = "complete", !.progress = 100, !.completedAt = TRUE]

Failed(job) ==
    [job EXCEPT !.status = "error", !.error = "Cannot find module"]

StoreResultIfScored(job, result) ==
    IF result.totalScore > 0 THEN [job EXCEPT !.results = Append(@, result)]
    ELSE job

\* if (currentJob && result): the record exists and every grader returns an
\* object, so the result is always appended.
StoreResult(job, result) == [job EXCEPT !.results = Append(@, result)]

JobIds == DOMAIN gradingJobs

RECURSIVE JoinHeadings(_)
JoinHeadings(fs) ==
    IF fs = <<>> THEN <<>>
    ELSE files[Head(fs)].headings \o JoinHeadings(Tail(fs))

\* The file the analyzer's error names: files.map throws at the first file
\* without extracted text; "" when every file has text.
RECURSIVE missingText(_)
missingText(fs) ==
    IF fs = <<>> THEN ""
    ELSE IF ~HasText(Head(fs)) THEN OriginalName[Head(fs)]
    ELSE missingText(Tail(fs))

NewTaskGrading(pc) ==
    [pc |-> "grade", i |-> 1, k |-> 1, schema |-> NoSchema, paths |-> <<>>,
     thrown |-> ""]

\* The background task as it starts: first submission, no schema yet.
NewTask(pc) ==
    [pc |-> pc, i |-> 1, k |-> 0, schema |-> NoSchema, paths |-> <<>>,
     thrown |-> ""]

\* The record gradingJobs.set creates, followed by the part of the background
\* task that runs before its first await: the first progress update.
NewJob(rubricIds, submissionIds) ==
    [status |-> "processing",
     progress |-> IF orchestration = "combined" THEN 25 ELSE 0,
     submissionFiles |-> submissionIds,
     rubricFiles |-> rubricIds,
     results |-> <<>>,
     currentFile |-> IF orchestration = "combined"
                     THEN "Processing student submission..."
                     ELSE OriginalName[submissionIds[1]],
     totalFiles |-> Len(submissionIds),
     error |-> "",
     completedAt |-> FALSE]

\* POST /api/grade, while fewer than limit jobs have been accepted (the
\* registry itself has no limit).
SubmitWithin(limit, rubricIds, submissionIds) ==
    /\ IF Len(rubricIds) = 0 \/ Len(submissionIds) = 0
       THEN /\ response' = Respond("submit", 400, 0, "", 0, <<>>)
            /\ UNCHANGED << gradingJobs, task >>
       ELSE IF \/ \E i \in DOMAIN rubricIds : rubricIds[i] \notin DOMAIN files
               \/ \E i \in DOMAIN submissionIds :
                      submissionIds[i] \notin DOMAIN files
       THEN /\ response' = Respond("submit", 404, 0, "", 0, <<>>)
            /\ UNCHANGED << gradingJobs, task >>
       ELSE LET jobId == Cardinality(JobIds) + 1
            IN /\ jobId <= limit
               /\ gradingJobs' = gradingJobs @@
                                 (jobId :> NewJob(rubricIds, submissionIds))
               /\ task' = task @@ (jobId :> NewTask("import"))
               /\ response' = Respond("submit", 202, jobId, "", 0, <<>>)
    /\ UNCHANGED << users, usageBefore, usageCalls, env, modelCall,
                    content, parsed, orchestration, TESTING_MODE,
                    GRADING_PROVIDER, files >>

Submit(rubricIds, submissionIds) ==
    SubmitWithin(MaxJobs, rubricIds, submissionIds)

StepFirstJob(j, job, t) ==
    /\ gradingJobs' = [gradingJobs EXCEPT ![1] = job]
    /\ task' = [task EXCEPT ![j] = t]
    /\ response' = NoResponse
    /\ UNCHANGED << users, usageBefore, usageCalls, env, modelCall,
                    content, parsed, orchestration, TESTING_MODE,
                    GRADING_PROVIDER, files >>

\* A step of job j's background task: the record and the task state after it.
Step(j, job, t) ==
    /\ gradingJobs' = [gradingJobs EXCEPT ![j] = job]
    /\ task' = [task EXCEPT ![j] = t]
    /\ response' = NoResponse
    /\ UNCHANGED << users, usageBefore, usageCalls, env, modelCall,
                    content, parsed, orchestration, TESTING_MODE,
                    GRADING_PROVIDER, files >>

\* perSubmission: the result of submission i is stored; then the next
\* iteration runs up to its import, or the job is marked complete.
AfterResult(job, t, result, path) ==
    LET stored == StoreResult(job, result)
        n == Len(job.submissionFiles)
    IN IF t.i < n
       THEN << [stored EXCEPT
                  !.progress = RoundPercent(t.i, n),
                  !.currentFile = OriginalName[job.submissionFiles[t.i + 1]]],
               [t EXCEPT !.pc = "import", !.i = t.i + 1, !.paths = Append(@, path),
                         !.schema = NoSchema] >>
       ELSE << Complete(stored),
               [t EXCEPT !.pc = "done", !.paths = Append(@, path), !.schema = NoSchema] >>

\* perSubmission: stage 2 starts with the analysis a; an unknown provider
\* throws at once and the error result is returned.
StartGrading(job, t, a) ==
    IF GRADING_PROVIDER \in Providers
    THEN << job, [t EXCEPT !.pc = "grade", !.schema = a] >>
    ELSE AfterResult(job, [t EXCEPT !.schema = a],
                     generateErrorResult(job.submissionFiles[t.i]), "error")

\* combined: gradePapersWithDynamicSchema returned result; progress 75, the
\* result stored, the job marked complete, all without an await between.
Finish(job, t, result, path) ==
    << Complete([job EXCEPT !.progress = 75,
                            !.currentFile = "Finalizing results...",
                            !.results = << result >>]),
       [t EXCEPT !.pc = "done", !.paths = Append(@, path), !.schema = NoSchema] >>

\* combined: stage 2 starts; extractSubmissionContent throws for a file
\* without extracted text, which the caller turns into the fallback result.
StartGradingCombined(job, t, schema) ==
    IF \A i \in DOMAIN job.submissionFiles : HasText(job.submissionFiles[i])
    THEN << job, [t EXCEPT !.pc = "grade", !.k = 1, !.schema = schema] >>
    ELSE Finish(job, [t EXCEPT !.schema = schema],
                generateFallbackGradingResult, "noText")

ImportPendingOrDone(j) == task[j].pc \in {"import", "done"}

\* The task of job j is suspended at await import(...).
ImportPending(j) == task[j].pc = "import"

ImportDoneSkipMissing(j, ok) ==
    /\ j \in JobIds
    /\ ImportPending(j)
    /\ LET job == gradingJobs[j]
           t == task[j]
           next ==
             IF ~ok THEN << Failed(job), [t EXCEPT !.pc = "done"] >>
             ELSE IF orchestration = "perSubmission"
             THEN << job, [t EXCEPT !.pc = "readFiles"] >>
             ELSE IF TESTING_MODE
             THEN << job, [t EXCEPT !.pc = "mockDelay"] >>
             ELSE << job, [t EXCEPT !.pc = "analyze", !.k = 1] >>
       IN Step(j, next[1], next[2])

\* The dynamic import of the grader module resolves (ok) or rejects.
ImportDone(j, ok) ==
    /\ j \in JobIds
    /\ ImportPending(j)
    /\ LET job == gradingJobs[j]
           t == task[j]
           next ==
             IF ~ok THEN << Failed(job), [t EXCEPT !.pc = "done"] >>
             ELSE IF orchestration = "perSubmission"
             THEN << job, [t EXCEPT !.pc = "readFiles"] >>
             ELSE IF TESTING_MODE
             THEN << job, [t EXCEPT !.pc = "mockDelay"] >>
             ELSE IF \A i \in DOMAIN job.rubricFiles :
                        HasText(job.rubricFiles[i])
             THEN << job, [t EXCEPT !.pc = "analyze", !.k = 1] >>
             ELSE Finish(job,
                         [t EXCEPT !.thrown = missingText(job.rubricFiles)],
                         generateFallbackGradingResult, "analysisError")
       IN Step(j, next[1], next[2])

\* combined, TESTING_MODE: the MOCK_AI_DELAY timer fires.
MockDelayDone(j) ==
    /\ j \in JobIds
    /\ task[j].pc = "mockDelay"
    /\ LET next == Finish(gradingJobs[j], task[j],
                          mockGradingResult(gradingJobs[j].submissionFiles),
                          "mock")
       IN Step(j, next[1], next[2])

\* perSubmission: fs.readFile of the assignment files resolves or rejects.
FilesRead(j, ok) ==
    /\ j \in JobIds
    /\ task[j].pc = "readFiles"
    /\ LET next == IF ok THEN << gradingJobs[j],
                                 [task[j] EXCEPT !.pc = "analyze"] >>
                   ELSE StartGrading(gradingJobs[j], task[j],
                                     createDefaultAnalysis)
       IN Step(j, next[1], next[2])

\* perSubmission: the analysis provider answers.
AnalyzeReply(j, reply) ==
    /\ j \in JobIds
    /\ orchestration = "perSubmission"
    /\ task[j].pc = "analyze"
    /\ LET next == StartGrading(gradingJobs[j], task[j],
                                analyzeWithProvider(reply))
       IN Step(j, next[1], next[2])

\* combined: analysis provider aiProviders[k] answers with candidate c.
AnalyzeSchemaReply(j, c) ==
    /\ j \in JobIds
    /\ orchestration = "combined"
    /\ task[j].pc = "analyze"
    /\ LET job == gradingJobs[j]
           t == task[j]
           next ==
             IF analyzerAccepts(c)
             THEN StartGradingCombined(job, t, SchemaOf(c))
             ELSE IF t.k < Len(aiProviders)
             THEN << job, [t EXCEPT !.k = t.k + 1] >>
             ELSE StartGradingCombined(job, t,
                      createDefaultSchema(JoinHeadings(job.rubricFiles)))
       IN Step(j, next[1], next[2])

\* perSubmission: the grading provider answers.
GradeReply(j, reply) ==
    /\ j \in JobIds
    /\ orchestration = "perSubmission"
    /\ task[j].pc = "grade"
    /\ LET job == gradingJobs[j]
           t == task[j]
           file == job.submissionFiles[t.i]
           next == IF reply.kind = "object"
                   THEN AfterResult(job, t, gradeWithModel(file, reply),
                                    "graded")
                   ELSE AfterResult(job, t, generateErrorResult(file), "error")
       IN Step(j, next[1], next[2])

\* combined: grading provider aiProviders[k] answers.
GradeSchemaReply(j, reply) ==
    /\ j \in JobIds
    /\ orchestration = "combined"
    /\ task[j].pc = "grade"
    /\ LET job == gradingJobs[j]
           t == task[j]
           next ==
             IF reply.kind = "object"
             THEN Finish(job, t, gradedWithSchema(t.schema, reply), "graded")
             ELSE IF t.k < Len(aiProviders)
             THEN << job, [t EXCEPT !.k = t.k + 1] >>
             ELSE Finish(job, t, generateFallbackGradingResult, "exhausted")
       IN Step(j, next[1], next[2])

GetStatusOrProcessing(id) ==
    /\ response' = IF id \in JobIds
                   THEN Respond("status", 200, id, gradingJobs[id].status,
                                gradingJobs[id].progress, <<>>)
                   ELSE Respond("status", 200, id, "processing", 0, <<>>)
    /\ UNCHANGED << users, usageBefore, usageCalls, env, modelCall,
                    content, parsed, orchestration, TESTING_MODE,
                    GRADING_PROVIDER, files,
                    gradingJobs, task >>

\* GET /api/grade/status/:jobId.
GetStatus(id) ==
    /\ response' = IF id \in JobIds
                   THEN Respond("status", 200, id, gradingJobs[id].status,
                                gradingJobs[id].progress, <<>>)
                   ELSE Respond("status", 404, id, "", 0, <<>>)
    /\ UNCHANGED << users, usageBefore, usageCalls, env, modelCall,
                    content, parsed, orchestration, TESTING_MODE,
                    GRADING_PROVIDER, files,
                    gradingJobs, task >>

GetResultsUnchecked(id) ==
    /\ response' =
         IF id \notin JobIds THEN Respond("results", 404, id, "", 0, <<>>)
         ELSE Respond("results", 200, id, "", 0, gradingJobs[id].results)
    /\ UNCHANGED << users, usageBefore, usageCalls, env, modelCall,
                    content, parsed, orchestration, TESTING_MODE,
                    GRADING_PROVIDER, files,
                    gradingJobs, task >>

\* GET /api/grade/results/:jobId.
GetResults(id) ==
    /\ response' =
         IF id \notin JobIds THEN Respond("results", 404, id, "", 0, <<>>)
         ELSE IF gradingJobs[id].status # "complete"
         THEN Respond("results", 400, id, gradingJobs[id].status, 0, <<>>)
         ELSE Respond("results", 200, id, "", 0, gradingJobs[id].results)
    /\ UNCHANGED << users, usageBefore, usageCalls, env, modelCall,
                    content, parsed, orchestration, TESTING_MODE,
                    GRADING_PROVIDER, files,
                    gradingJobs, task >>

\* ------------------------------------------------------------------ usage
\* server/storage.ts: the monthly usage counter of the users table.
MaxUsers == 2
MaxCalls == 2
MaxUsage == 1

UserIds == 1..MaxUsers

\* A row of users, reduced to the counter; monthlyAssessments may be null.
UserRow(isNull, n) == [exists |-> TRUE, isNull |-> isNull,
                       monthlyAssessments |-> n]

\* getUser resolves to undefined.
NoUser == [exists |-> FALSE, isNull |-> TRUE, monthlyAssessments |-> 0]

UserRows == {NoUser, UserRow(TRUE, 0)} \cup
            {UserRow(FALSE, n) : n \in 0..MaxUsage}

\* user.monthlyAssessments || 0
OrZero(row) == IF row.isNull THEN 0 ELSE row.monthlyAssessments

IdleCall == [pc |-> "idle", userId |-> 0, user |-> NoUser]

NoCalls == [c \in 1..MaxCalls |-> IdleCall]

NoUsers == [u \in UserIds |-> NoUser]

UsageIdle ==
    /\ users = NoUsers
    /\ usageBefore = NoUsers
    /\ usageCalls = NoCalls

\* incrementUsage(userId) is called: it runs up to await this.getUser.
incrementUsage(c, userId) ==
    /\ usageCalls[c].pc = "idle"
    /\ usageCalls' = [usageCalls EXCEPT ![c] = [pc |-> "getUser",
                                                userId |-> userId,
                                                user |-> NoUser]]
    /\ UNCHANGED << users, usageBefore, env, modelCall, content, parsed,
                    orchestration, TESTING_MODE, GRADING_PROVIDER, files,
                    gradingJobs, task, response >>

\* getUser resolves with the row as it is now; without a row the call ends,
\* with one it issues the update and awaits it.
GetUserResolved(c) ==
    /\ usageCalls[c].pc = "getUser"
    /\ LET user == users[usageCalls[c].userId]
       IN usageCalls' = [usageCalls EXCEPT
                           ![c].user = user,
                           ![c].pc = IF user.exists THEN "update" ELSE "done"]
    /\ UNCHANGED << users, usageBefore, env, modelCall, content, parsed,
                    orchestration, TESTING_MODE, GRADING_PROVIDER, files,
                    gradingJobs, task, response >>

\* The UPDATE runs: SET monthlyAssessments to the value computed from the
\* row that getUser returned.
UpdateApplied(c) ==
    /\ usageCalls[c].pc = "update"
    /\ users' = [users EXCEPT
                   ![usageCalls[c].userId] =
                       UserRow(FALSE, OrZero(usageCalls[c].user) + 1)]
    /\ usageCalls' = [usageCalls EXCEPT ![c].pc = "done"]
    /\ UNCHANGED << usageBefore, env, modelCall, content, parsed,
                    orchestration, TESTING_MODE, GRADING_PROVIDER, files,
                    gradingJobs, task, response >>

\* ------------------------------------------------------------------ model choice
\* server/aiProvider.ts. A model name is its recognised prefix, or "" when
\* it has none, followed by the rest of the name.
MaxFallbacks == 2

ModelNames == { << "gpt-", "4o" >>, << "gemini-", "pro" >>,
                << "claude-", "3" >>, << "", "llama" >> }

EnvNames == {"OPENAI_API_KEY", "GEMINI_API_KEY", "ANTHROPIC_API_KEY"}

NoModelCall == [primaryModel |-> << >>, fallbacks |-> << >>,
                returned |-> << >>]

SelectionIdle ==
    /\ env = {}
    /\ modelCall = NoModelCall

startsWith(modelName, prefix) == modelName[1] = prefix

getProviderForModel(modelName) ==
    IF \/ startsWith(modelName, "gpt-")
       \/ startsWith(modelName, "text-")
       \/ startsWith(modelName, "dall-e")
    THEN "openai"
    ELSE IF startsWith(modelName, "gemini-") THEN "gemini"
    ELSE IF startsWith(modelName, "claude-") THEN "anthropic"
    ELSE "openai"

\* process.env.X !== undefined
isModelAvailable(provider) ==
    CASE provider = "openai" -> "OPENAI_API_KEY" \in env
      [] provider = "gemini" -> "GEMINI_API_KEY" \in env
      [] provider = "anthropic" -> "ANTHROPIC_API_KEY" \in env
      [] OTHER -> FALSE

getModelLastFallback(primaryModel, fallbacks) ==
    IF isModelAvailable(getProviderForModel(primaryModel)) THEN primaryModel
    ELSE LET ok == {i \in DOMAIN fallbacks :
                       isModelAvailable(getProviderForModel(fallbacks[i]))}
         IN IF ok = {} THEN primaryModel
            ELSE fallbacks[CHOOSE i \in ok : \A o \in ok : i >= o]

getModelWithFallbacks(primaryModel, fallbacks) ==
    IF isModelAvailable(getProviderForModel(primaryModel)) THEN primaryModel
    ELSE LET ok == {i \in DOMAIN fallbacks :
                       isModelAvailable(getProviderForModel(fallbacks[i]))}
         IN IF ok = {} THEN primaryModel
            ELSE fallbacks[CHOOSE i \in ok : \A o \in ok : i <= o]

\* A caller asks for a model.
SelectModel(primaryModel, fallbacks) ==
    /\ modelCall' = [primaryModel |-> primaryModel, fallbacks |-> fallbacks,
                     returned |-> getModelWithFallbacks(primaryModel,
                                                        fallbacks)]
    /\ UNCHANGED << users, usageBefore, usageCalls, env, content, parsed,
                    orchestration, TESTING_MODE, GRADING_PROVIDER, files,
                    gradingJobs, task, response >>

\* ------------------------------------------------------------------ specification
Deployments ==
    { [orchestration |-> "perSubmission", TESTING_MODE |-> TRUE,
       GRADING_PROVIDER |-> p, files |-> FileTable(<<>>)] :
        p \in Providers \cup {"unset"} }
    \cup
    { [orchestration |-> "combined", TESTING_MODE |-> FALSE,
       GRADING_PROVIDER |-> "unset", files |-> ft] : ft \in FileTables }
    \cup
    { [orchestration |-> "combined", TESTING_MODE |-> TRUE,
       GRADING_PROVIDER |-> "unset", files |-> FileTable(<<>>)] }

Init ==
    /\ \E d \in Deployments :
         /\ orchestration = d.orchestration
         /\ TESTING_MODE = d.TESTING_MODE
         /\ GRADING_PROVIDER = d.GRADING_PROVIDER
         /\ files = d.files
    /\ gradingJobs = << >>
    /\ task = << >>
    /\ response = NoResponse
    /\ content = NoContent
    /\ parsed = NotParsed
    /\ UsageIdle
    /\ SelectionIdle

Requests ==
    SeqsOf(FileIds, 0, MaxRubrics) \X SeqsOf(FileIds, 0, MaxSubs)

TaskStep(j, analysis, schemas, gradings) ==
    \/ \E ok \in BOOLEAN : ImportDone(j, ok)
    \/ MockDelayDone(j)
    \/ \E ok \in BOOLEAN : FilesRead(j, ok)
    \/ \E reply \in analysis : AnalyzeReply(j, reply)
    \/ \E c \in schemas : AnalyzeSchemaReply(j, c)
    \/ \E reply \in gradings : GradeReply(j, reply)
    \/ \E reply \in gradings : GradeSchemaReply(j, reply)

Next ==
    \/ \E rq \in Requests : Submit(rq[1], rq[2])
    \/ \E j \in 1..MaxJobs :
         TaskStep(j, AnalysisReplies, SchemaReplies, GradingReplies)
    \/ \E id \in 1..(MaxJobs + 1) : GetStatus(id)
    \/ \E id \in 1..(MaxJobs + 1) : GetResults(id)

Spec == Init /\ [][Next]_vars

\* The awaits of job j's task that the runtime itself settles: the module
\* import, the mock timer, the file reads. A provider call is a request to a
\* remote service made without a timeout or an abort signal, so nothing
\* obliges it to settle.
LocalStep(j) ==
    \/ \E ok \in BOOLEAN : ImportDone(j, ok)
    \/ MockDelayDone(j)
    \/ \E ok \in BOOLEAN : FilesRead(j, ok)

FairSpec == Spec /\ \A j \in 1..MaxJobs : WF_vars(LocalStep(j))

\* ------------------------------------------------- jobs side by side
\* MaxConcurrent jobs whose background tasks interleave at their awaits,
\* with one accepted and one refused answer per provider call.
ConcurrentDeployments ==
    {d \in Deployments :
        /\ d.GRADING_PROVIDER \in {"openai", "unset"}
        /\ d.files = FileTable(<<>>)
        /\ d.orchestration = "combined" \/ d.GRADING_PROVIDER = "openai"}

ConcurrentInit ==
    /\ \E d \in ConcurrentDeployments :
         /\ orchestration = d.orchestration
         /\ TESTING_MODE = d.TESTING_MODE
         /\ GRADING_PROVIDER = d.GRADING_PROVIDER
         /\ files = d.files
    /\ gradingJobs = << >>
    /\ task = << >>
    /\ response = NoResponse
    /\ content = NoContent
    /\ parsed = NotParsed
    /\ UsageIdle
    /\ SelectionIdle

ConcurrentRequests == { << << 1 >>, << 1 >> >>, << << 1 >>, << 1, 2 >> >> }

ConcurrentNext ==
    \/ \E rq \in ConcurrentRequests :
          SubmitWithin(MaxConcurrent, rq[1], rq[2])
    \/ \E j \in 1..MaxConcurrent :
         TaskStep(j,
                  {AnalysisFailure("throw")},
                  {Candidate("object", TRUE, "numerical", TRUE,
                             TwoSections("none"), TRUE, TRUE),
                   CandidateFailure("throw")},
                  {Obj("pass", 18, Sf(8, 10)), GradingFailure("throw")})
    \/ \E id \in 1..MaxConcurrent : GetStatus(id)
    \/ \E id \in 1..MaxConcurrent : GetResults(id)

ConcurrentSpec == ConcurrentInit /\ [][ConcurrentNext]_vars

\* ------------------------------------------------- usage counting alone
\* No grading job: the pipeline variables stay as they start.
PipelineIdle ==
    /\ orchestration = "combined"
    /\ TESTING_MODE = TRUE
    /\ GRADING_PROVIDER = "unset"
    /\ files = FileTable(<<>>)
    /\ gradingJobs = << >>
    /\ task = << >>
    /\ response = NoResponse
    /\ content = NoContent
    /\ parsed = NotParsed

UsageInit ==
    /\ PipelineIdle
    /\ SelectionIdle
    /\ users \in [UserIds -> UserRows]
    /\ usageBefore = users
    /\ usageCalls = NoCalls

UsageNext ==
    \/ \E c \in 1..MaxCalls, userId \in UserIds : incrementUsage(c, userId)
    \/ \E c \in 1..MaxCalls : GetUserResolved(c)
    \/ \E c \in 1..MaxCalls : UpdateApplied(c)

UsageSpec == UsageInit /\ [][UsageNext]_vars

\* ------------------------------------------------- model choice alone
SelectionInit ==
    /\ PipelineIdle
    /\ UsageIdle
    /\ env \in SUBSET EnvNames
    /\ modelCall = NoModelCall

SelectionNext ==
    \E primaryModel \in ModelNames,
       fallbacks \in SeqsOf(ModelNames, 0, MaxFallbacks) :
        SelectModel(primaryModel, fallbacks)

SelectionSpec == SelectionInit /\ [][SelectionNext]_vars

\* ------------------------------------------------- response parsing alone
\* A provider returns a text, bare or fenced, and its function parses it.
ProviderReturns(provider, t, fenced) ==
    /\ content' = [provider |-> provider, json |-> t,
                   text |-> IF fenced THEN Wrap(t) ELSE t]
    /\ parsed' = NotParsed
    /\ UNCHANGED << users, usageBefore, usageCalls, env, modelCall,
                    orchestration, TESTING_MODE, GRADING_PROVIDER, files,
                    gradingJobs, task, response >>

ParseContent ==
    /\ content # NoContent
    /\ parsed = NotParsed
    /\ parsed' = extractJson(content.provider, content.text)
    /\ UNCHANGED << users, usageBefore, usageCalls, env, modelCall,
                    content, orchestration, TESTING_MODE, GRADING_PROVIDER,
                    files, gradingJobs, task, response >>

ParseInit ==
    /\ orchestration = "combined"
    /\ TESTING_MODE = FALSE
    /\ GRADING_PROVIDER = "unset"
    /\ files = FileTable(<<>>)
    /\ gradingJobs = << >>
    /\ task = << >>
    /\ response = NoResponse
    /\ content = NoContent
    /\ parsed = NotParsed
    /\ UsageIdle
    /\ SelectionIdle

ParseNext ==
    \/ \E provider \in Providers, t \in Texts, fenced \in BOOLEAN :
          ProviderReturns(provider, t, fenced)
    \/ ParseContent

ParseSpec == ParseInit /\ [][ParseNext]_vars

\* ------------------------------------------------------------------ claims
Terminal == {"complete", "error"}

Done(j) == task[j].pc = "done"

\* C1: if every provider call of the grading stage fails,
\* gradePapersWithDynamicSchema returns (it does not throw) a result whose
\* status is "pending" and whose overallFeedback is a non-empty string.
C1_ExhaustedIsPending ==
    \A j \in JobIds :
        (Done(j) /\ task[j].paths = << "exhausted" >>) =>
            /\ gradingJobs[j].status = "complete"
            /\ Len(gradingJobs[j].results) = 1
            /\ LET r == gradingJobs[j].results[1]
               IN /\ "status" \in r.keys
                  /\ r.status = "pending"
                  /\ "overallFeedback" \in r.keys
                  /\ r.overallFeedback # ""

\* Grading of the first submission A failed although the second one, B, can
\* be graded: perSubmission, enhancedGradePapers returned its error result
\* for A and the provider's answer for B, which states pass or fail;
\* combined, the rubric and B have extracted text and A has none.
AFailsBNormal(j) ==
    /\ Len(gradingJobs[j].submissionFiles) = 2
    /\ Done(j)
    /\ IF orchestration = "perSubmission"
       THEN /\ task[j].paths = << "error", "graded" >>
            /\ gradingJobs[j].results[2].status \in {"pass", "fail"}
       ELSE /\ ~TESTING_MODE
            /\ \A i \in DOMAIN gradingJobs[j].rubricFiles :
                   HasText(gradingJobs[j].rubricFiles[i])
            /\ ~HasText(gradingJobs[j].submissionFiles[1])
            /\ HasText(gradingJobs[j].submissionFiles[2])
            /\ gradingJobs[j].status # "error"

TwoResults(j) ==
    /\ gradingJobs[j].status = "complete"
    /\ Len(gradingJobs[j].results) = 2
    /\ gradingJobs[j].results[1].status = "pending"
    /\ gradingJobs[j].results[1].submissionId = gradingJobs[j].submissionFiles[1]
    /\ gradingJobs[j].results[2].status \in {"pass", "fail"}
    /\ gradingJobs[j].results[2].submissionId = gradingJobs[j].submissionFiles[2]

C3_StatusMachine ==
    [][ /\ \A j \in DOMAIN gradingJobs' \ JobIds :
               gradingJobs'[j].status = "processing"
        /\ \A j \in JobIds :
               /\ j \in DOMAIN gradingJobs'
               /\ gradingJobs[j].status \in Terminal =>
                      gradingJobs'[j] = gradingJobs[j]
               /\ gradingJobs'[j].status # gradingJobs[j].status =>
                      /\ gradingJobs[j].status = "processing"
                      /\ gradingJobs'[j].status \in Terminal ]_vars

\* Seen by C3: a job that stored a result and then ended in "error", polled
\* afterwards.
C3_Witness ==
    \E j \in JobIds :
        /\ gradingJobs[j].status = "error"
        /\ Len(gradingJobs[j].results) = 1
        /\ response.kind = "status"
        /\ response.jobId = j

\* C4: whenever a job's status is "complete", its results hold exactly one
\* result per submission, in the submissions' order, in the per-submission
\* orchestration and exactly one result in the combined one; never none.
C4_ResultPerSubmission ==
    \A j \in JobIds :
        gradingJobs[j].status = "complete" =>
            LET job == gradingJobs[j]
            IN /\ Len(job.results) >= 1
               /\ IF orchestration = "perSubmission"
                  THEN /\ Len(job.results) = Len(job.submissionFiles)
                       /\ \A i \in DOMAIN job.results :
                              /\ "submissionId" \in job.results[i].keys
                              /\ job.results[i].submissionId =
                                 job.submissionFiles[i]
                  ELSE Len(job.results) = 1

\* Seen by C4: a complete per-submission job of two different files, the
\* first graded by the provider, the second failed.
C4_Witness ==
    \E j \in JobIds :
        /\ orchestration = "perSubmission"
        /\ gradingJobs[j].status = "complete"
        /\ gradingJobs[j].submissionFiles = << 2, 1 >>
        /\ task[j].paths = << "graded", "error" >>

\* C5: getResults returns a job's results only when its status is
\* "complete"; for a job that is "processing" or "error" it answers 400 with
\* the status and none of the results stored so far.
C5_ResultsOnlyWhenComplete ==
    (response.kind = "results" /\ response.jobId \in JobIds) =>
        LET job == gradingJobs[response.jobId]
        IN IF job.status = "complete"
           THEN /\ response.code = 200
                /\ response.results = job.results
           ELSE /\ response.code = 400
                /\ response.status = job.status
                /\ response.results = << >>

\* Seen by C5: a request for the results of a job that is still processing
\* and already holds one result.
C5_Witness ==
    /\ response.kind = "results"
    /\ response.jobId \in JobIds
    /\ gradingJobs[response.jobId].status = "processing"
    /\ Len(gradingJobs[response.jobId].results) = 1
    /\ response.code = 400

\* C6: in the combined orchestration, with reference materials that all have
\* extracted text, the schema analyzeAssignmentMaterials hands to grading has
\* at least one section and a marking_schema_type among qualitative,
\* numerical, weighted and hybrid, whatever the three providers answered.
C6_SchemaUsable ==
    \A j \in JobIds :
        (orchestration = "combined" /\ task[j].pc = "grade") =>
            /\ Len(task[j].schema.sections) >= 1
            /\ task[j].schema.marking_schema_type \in SchemaKinds

\* Seen by C6: all three providers were refused (the counter k was reset by
\* the start of grading) and the default schema built from the materials'
\* own headings is in use.
C6_Witness ==
    \E j \in JobIds :
        /\ orchestration = "combined"
        /\ task[j].pc = "grade"
        /\ \A i \in DOMAIN gradingJobs[j].rubricFiles :
               HasText(gradingJobs[j].rubricFiles[i])
        /\ task[j].schema =
           createDefaultSchema(<< "Task 1: Design", "Task 2: Build" >>)

\* The result a grading step has just stored for job j, if any.
Stored(j) ==
    /\ j \in JobIds
    /\ task[j].pc = "grade"
    /\ Len(gradingJobs'[j].results) = Len(gradingJobs[j].results) + 1

Latest(j) == gradingJobs'[j].results[Len(gradingJobs'[j].results)]

SectionAt(r, n) == r.sectionFeedback[n]

RECURSIVE SumScores(_, _)
SumScores(sf, names) ==
    IF names = {} THEN 0
    ELSE LET n == CHOOSE x \in names : TRUE
         IN sf[n].score + SumScores(sf, names \ {n})

PassOrFail(r) == "status" \in r.keys /\ r.status \in {"pass", "fail"}

\* C7: a stored result whose status is pass or fail has status pass exactly
\* when totalScore / maxPossibleScore reaches the pass threshold (a
\* percentage) of the analysis the grading used.
C7_StatusFollowsThreshold ==
    [][ \A j \in 1..MaxJobs :
          (orchestration = "perSubmission" /\ Stored(j) /\ PassOrFail(Latest(j)))
          => ( Latest(j).status = "pass" <=>
               100 * Latest(j).totalScore >=
               task[j].schema.pass_threshold * Latest(j).maxPossibleScore ) ]_vars

\* C8: every section entry of every stored result has 0 <= score <= maxScore.
C8_ScoresWithinMaximum ==
    \A j \in JobIds :
        \A i \in DOMAIN gradingJobs[j].results :
            LET r == gradingJobs[j].results[i]
            IN "sectionFeedback" \in r.keys =>
                   \A n \in DOMAIN r.sectionFeedback :
                       /\ 0 <= SectionAt(r, n).score
                       /\ SectionAt(r, n).score <= SectionAt(r, n).maxScore

\* C9: a stored result whose status is pass or fail, and which carries section
\* entries, has a totalScore within 1 point of the sum of their scores.
C9_TotalIsSumOfSections ==
    \A j \in JobIds :
        \A i \in DOMAIN gradingJobs[j].results :
            LET r == gradingJobs[j].results[i]
                sum == IF "sectionFeedback" \in r.keys
                       THEN SumScores(r.sectionFeedback,
                                      DOMAIN r.sectionFeedback)
                       ELSE 0
            IN (PassOrFail(r) /\ "sectionFeedback" \in r.keys) =>
                   /\ "totalScore" \in r.keys
                   /\ r.totalScore - sum <= 1
                   /\ sum - r.totalScore <= 1

\* C10: the keys of sectionFeedback in a pass or fail result stored by a
\* grading step are exactly the section names of the schema the grading used.
C10_SectionKeysMatchSchema ==
    [][ \A j \in 1..MaxJobs :
          (Stored(j) /\ PassOrFail(Latest(j))) =>
              /\ "sectionFeedback" \in Latest(j).keys
              /\ DOMAIN Latest(j).sectionFeedback =
                 { task[j].schema.sections[i].section_name :
                     i \in DOMAIN task[j].schema.sections } ]_vars

\* The return path that produced result i of job j (results and paths grow
\* together).
PathOf(j, i) == task[j].paths[i]

\* C11: a result returned after a provider succeeded has status pass or fail;
\* status pending occurs only in results of a fallback or error path.
C11_PendingOnlyOnFallback ==
    \A j \in JobIds :
        \A i \in DOMAIN gradingJobs[j].results :
            LET r == gradingJobs[j].results[i]
            IN /\ PathOf(j, i) = "graded" => PassOrFail(r)
               /\ ("status" \in r.keys /\ r.status = "pending") =>
                      PathOf(j, i) # "graded"

\* The return path of the result a grading step has just stored.
LatestPath(j) == task'[j].paths[Len(task'[j].paths)]

\* C12: a result a fallback or error path produces once grading has started
\* has total score 0 and, for each section of the schema in use, an entry
\* with score 0 and (where the schema states one) that section's maximum.
C12_FallbackCoversSections ==
    [][ \A j \in 1..MaxJobs :
          (Stored(j) /\ LatestPath(j) # "graded") =>
              /\ "totalScore" \in Latest(j).keys
              /\ Latest(j).totalScore = 0
              /\ "sectionFeedback" \in Latest(j).keys
              /\ \A i \in DOMAIN task[j].schema.sections :
                     LET sec == task[j].schema.sections[i]
                         sf == Latest(j).sectionFeedback
                     IN /\ sec.section_name \in DOMAIN sf
                        /\ sf[sec.section_name].score = 0
                        /\ orchestration = "perSubmission" =>
                               sf[sec.section_name].maxScore = sec.max_score ]_vars

\* Every file of the sequence ids is stored and has extracted text.
AllHaveText(ids) ==
    \A i \in DOMAIN ids : ids[i] \in DOMAIN files /\ HasText(ids[i])

\* C13: submit creates a job and returns its id only if every rubric id and
\* every submission id refers to a stored file with extracted text;
\* otherwise it rejects the request and the job registry is unchanged.
C13_SubmitRequiresText ==
    [][ response'.kind = "submit" =>
          IF response'.code = 202
          THEN /\ response'.jobId \in DOMAIN gradingJobs' \ JobIds
               /\ AllHaveText(gradingJobs'[response'.jobId].rubricFiles)
               /\ AllHaveText(gradingJobs'[response'.jobId].submissionFiles)
          ELSE gradingJobs' = gradingJobs ]_vars

\* C14: for a job id that submit never issued, getStatus answers 404 and
\* leaves the job registry and the running tasks as they were.
C14_UnknownJobNotFound ==
    [][ (response'.kind = "status" /\ response'.jobId \notin JobIds) =>
          /\ response'.code = 404
          /\ gradingJobs' = gradingJobs
          /\ task' = task ]_vars

\* Seen by C14: a 404 for an unknown id while another job is in the registry.
C14_Witness ==
    /\ response.kind = "status"
    /\ response.code = 404
    /\ response.jobId \notin JobIds
    /\ JobIds # {}

\* C15: a job's progress is always an integer from 0 to 100, no step lowers
\* it, and it is 100 whenever the status is "complete".
C15_ProgressMonotone ==
    [][ \A j \in DOMAIN gradingJobs' :
          /\ gradingJobs'[j].progress \in 0..100
          /\ gradingJobs'[j].status = "complete" =>
                 gradingJobs'[j].progress = 100
          /\ j \in JobIds =>
                 gradingJobs'[j].progress >= gradingJobs[j].progress ]_vars

\* Seen by C15: a per-submission job half-way, one of two results stored.
C15_Witness ==
    \E j \in JobIds :
        /\ orchestration = "perSubmission"
        /\ gradingJobs[j].status = "processing"
        /\ gradingJobs[j].progress = 50
        /\ Len(gradingJobs[j].results) = 1

\* C16: within one job, a grading-stage provider call is pending only after
\* schema analysis has returned a schema: the task reaches its grading
\* await only from the analysis stage, and then holds a schema with sections.
C16_AnalysisBeforeGrading ==
    [][ \A j \in DOMAIN task' :
          task'[j].pc = "grade" =>
              /\ task'[j].schema # NoSchema
              /\ Len(task'[j].schema.sections) >= 1
              /\ j \in DOMAIN task
              /\ task[j].pc \in {"analyze", "readFiles", "grade"}
              /\ task[j].pc = "grade" => task'[j].schema = task[j].schema ]_vars

\* Seen by C16: the grading call for the second submission of a
\* per-submission job is pending, after that submission's own analysis.
C16_Witness ==
    \E j \in JobIds :
        /\ orchestration = "perSubmission"
        /\ task[j].pc = "grade"
        /\ task[j].i = 2
        /\ task[j].schema # createDefaultAnalysis

\* C17: every accepted job eventually reaches status "complete" or "error",
\* also when a provider call never responds.
C17_JobsTerminate ==
    \A j \in 1..MaxJobs :
        (j \in JobIds) ~> (j \in JobIds /\ gradingJobs[j].status \in Terminal)

\* C18: for every text that is valid JSON, each provider's parsing step
\* returns the same value for the text wrapped in a markdown code fence as
\* for the bare text.
C18_FenceInvariantParsing ==
    (parsed # NotParsed /\ IsJson(content.json)) =>
        parsed = extractJson(content.provider, content.json)

\* C19: analyzeAssignmentMaterials never raises an error to its caller: no
\* job's grading ends on the path taken when the analyzer threw.
C19_AnalyzerNeverThrows ==
    \A j \in JobIds :
        \A i \in DOMAIN task[j].paths : task[j].paths[i] # "analysisError"

\* The return paths on which grading degraded: a provider failure or
\* exhaustion, a submission without text, an analysis that failed.
Degraded == {"error", "exhausted", "noText", "analysisError"}

\* C20: a job's status is "error" only through an exception outside the
\* pipeline's own degradation paths (here: the grader module failing to
\* load); a provider failure, a missing text or an unusable schema yields a
\* "pending" result, and a job whose last step degraded ends "complete".
C20_ErrorOnlyWhenUnexpected ==
    \A j \in JobIds :
        /\ gradingJobs[j].status = "error" =>
               /\ Done(j)
               /\ gradingJobs[j].error = "Cannot find module"
               /\ Len(gradingJobs[j].results) < Len(gradingJobs[j].submissionFiles)
        /\ \A i \in DOMAIN gradingJobs[j].results :
               PathOf(j, i) \in Degraded =>
                   /\ "status" \in gradingJobs[j].results[i].keys
                   /\ gradingJobs[j].results[i].status = "pending"
        /\ (Done(j) /\ task[j].paths # << >>
                    /\ Len(gradingJobs[j].results) =
                       (IF orchestration = "perSubmission"
                        THEN Len(gradingJobs[j].submissionFiles) ELSE 1)) =>
               gradingJobs[j].status = "complete"

\* The submissions result i of job j answers for: submission i in the
\* per-submission orchestration, all of them in the combined one.
SubmissionsOf(j, i) ==
    IF orchestration = "perSubmission"
    THEN {gradingJobs[j].submissionFiles[i]}
    ELSE {gradingJobs[j].submissionFiles[x] :
            x \in DOMAIN gradingJobs[j].submissionFiles}

\* C21: for a submission without extracted text no grading provider is
\* called, and the result returned for it is an explicit error result with
\* status "pending", never a graded one.
C21_NoTextNoGrading ==
    \A j \in JobIds :
        /\ (orchestration = "perSubmission" /\ task[j].pc = "grade") =>
               HasText(gradingJobs[j].submissionFiles[task[j].i])
        /\ \A i \in DOMAIN gradingJobs[j].results :
               (\E f \in SubmissionsOf(j, i) : ~HasText(f)) =>
                   /\ PathOf(j, i) # "graded"
                   /\ "status" \in gradingJobs[j].results[i].keys
                   /\ gradingJobs[j].results[i].status = "pending"

\* The stages of the combined pipeline in which providers are tried.
Stages == {"analyze", "grade"}

\* The provider whose call job j's task awaits.
Called(t) == aiProviders[t.k]

\* C22: in both stages of the combined pipeline the providers are tried in
\* the order gemini, anthropic, openai: a stage starts with gemini, a
\* refused answer moves to the next provider in that order and no further,
\* an accepted answer ends the stage, and the stage gives up only after
\* openai.
C22_ProviderOrder ==
    [][ \A j \in JobIds :
          LET t == task[j]
              u == task'[j]
          IN orchestration = "combined" =>
               /\ (u.pc \in Stages /\ u.pc # t.pc) => Called(u) = "gemini"
               /\ (t.pc \in Stages /\ u.pc = t.pc /\ u # t) =>
                      << Called(t), Called(u) >> \in
                          { << "gemini", "anthropic" >>,
                            << "anthropic", "openai" >> }
               /\ (t.pc = "grade" /\ u.pc = "done"
                     /\ u.paths = << "exhausted" >>) => Called(t) = "openai" ]_vars

\* Seen by C22: the grading stage has reached openai after gemini and
\* anthropic were refused.
C22_Witness ==
    \E j \in JobIds :
        /\ orchestration = "combined"
        /\ task[j].pc = "grade"
        /\ task[j].k = 3

\* C23: a provider's parsed response is accepted only if it has all of
\* totalScore, maxPossibleScore, overallFeedback, status and sectionFeedback:
\* every result stored from an accepted response carries the five keys.
C23_RequiredKeys ==
    \A j \in JobIds :
        \A i \in DOMAIN gradingJobs[j].results :
            PathOf(j, i) = "graded" =>
                ReplyKeys \subseteq gradingJobs[j].results[i].keys

\* s is an initial segment of t.
IsPrefix(s, t) == Len(s) <= Len(t) /\ SubSeq(t, 1, Len(s)) = s

\* C24: with jobs running side by side and status and result requests in
\* between, every write to a job's record starts from the record as it is:
\* a step writes the record of one job only, that of the job whose task took
\* the step; results are only ever appended to; the request's file lists
\* stay; progress and a terminal status are never taken back.
C24_NoStaleWrites ==
    [][ \A j \in JobIds :
          LET old == gradingJobs[j]
              new == gradingJobs'[j]
          IN /\ j \in DOMAIN gradingJobs'
             /\ IsPrefix(old.results, new.results)
             /\ new.submissionFiles = old.submissionFiles
             /\ new.rubricFiles = old.rubricFiles
             /\ new.totalFiles = old.totalFiles
             /\ new.progress >= old.progress
             /\ old.status \in Terminal => new = old
             /\ new # old =>
                    /\ task'[j] # task[j]
                    /\ \A other \in JobIds \ {j} :
                           gradingJobs'[other] = gradingJobs[other] ]_vars

\* Seen by C24: two per-submission jobs of two submissions each, both
\* half-way, each holding its own first result.
C24_Witness ==
    /\ orchestration = "perSubmission"
    /\ JobIds = {1, 2}
    /\ \A j \in JobIds :
           /\ gradingJobs[j].status = "processing"
           /\ Len(gradingJobs[j].submissionFiles) = 2
           /\ Len(gradingJobs[j].results) = 1
    /\ gradingJobs[1].results[1].status # gradingJobs[2].results[1].status

\* C25: within one job the schema analysis runs exactly once, before any
\* submission is graded: the job is in its analysis stage (reading the
\* assignment files, or waiting for an analysis provider) only while it
\* works on its first submission and holds no result yet.
C25_AnalysisOncePerJob ==
    \A j \in JobIds :
        task[j].pc \in {"readFiles", "analyze"} =>
            /\ task[j].i = 1
            /\ gradingJobs[j].results = << >>

ShapeMatches(kind, sec) ==
    /\ sec.criteria \in {"qualitative", "numerical"}
    /\ kind = "qualitative" => sec.criteria = "qualitative"
    /\ kind = "numerical" => sec.criteria = "numerical"

\* C27: every section of the schema the analyzer returns carries exactly
\* one criteria shape, the one matching the declared kind; a section
\* without bands or ranges is never handed to grading as it is.
C27_CriteriaMatchKind ==
    \A j \in JobIds :
        (orchestration = "combined" /\ task[j].pc = "grade") =>
            \A i \in DOMAIN task[j].schema.sections :
                ShapeMatches(task[j].schema.marking_schema_type,
                             task[j].schema.sections[i])

\* C28: with TESTING_MODE on, gradePapersWithDynamicSchema calls neither
\* the analyzer nor a provider and returns the mock result, status 'pass'
\* with 75 of 100, for every input: a job never reaches the analysis or
\* grading stage, its one result is the mock result whether or not the
\* submissions have extracted text, and so is that for the empty list.
C28_TestingModeMocks ==
    /\ LET r == mockGradingResult(<< >>)
       IN /\ r.status = "pass" /\ r.totalScore = 75
          /\ r.maxPossibleScore = 100
          /\ {"status", "totalScore", "maxPossibleScore"} \subseteq r.keys
    /\ (orchestration = "combined" /\ TESTING_MODE) =>
        \A j \in JobIds :
            /\ task[j].pc \in {"import", "mockDelay", "done"}
            /\ task[j].k = 0
            /\ gradingJobs[j].status = "complete" =>
                 /\ Len(gradingJobs[j].results) = 1
                 /\ LET r == gradingJobs[j].results[1]
                    IN /\ r.status = "pass" /\ r.totalScore = 75
                       /\ r.maxPossibleScore = 100
                       /\ {"status", "totalScore", "maxPossibleScore"}
                              \subseteq r.keys

\* Seen by C28: a mock result for a submission without extracted text.
C28_Witness ==
    /\ orchestration = "combined" /\ TESTING_MODE
    /\ \E j \in JobIds :
         /\ gradingJobs[j].submissionFiles[1] = 2
         /\ ~HasText(2)
         /\ gradingJobs[j].status = "complete"
         /\ gradingJobs[j].results[1].status = "pass"
         /\ gradingJobs[j].results[1].totalScore = 75

\* The incrementUsage calls made so far for user u.
CallsFor(u) == {c \in 1..MaxCalls : usageCalls[c].pc # "idle"
                                    /\ usageCalls[c].userId = u}

\* C29: when two incrementUsage calls for the same user have run, however
\* their reads and writes interleaved, the user's monthlyAssessments is
\* what it was before plus exactly 2.
C29_NoLostIncrement ==
    \A u \in UserIds :
        ( /\ usageBefore[u].exists
          /\ Cardinality(CallsFor(u)) = 2
          /\ \A c \in CallsFor(u) : usageCalls[c].pc = "done" ) =>
            /\ ~users[u].isNull
            /\ users[u].monthlyAssessments = OrZero(usageBefore[u]) + 2

\* The provider of model name m has its API key defined.
HasKey(m) ==
    LET key == IF m[1] \in {"gpt-", "text-", "dall-e"} THEN "OPENAI_API_KEY"
               ELSE IF m[1] = "gemini-" THEN "GEMINI_API_KEY"
               ELSE IF m[1] = "claude-" THEN "ANTHROPIC_API_KEY"
               ELSE "OPENAI_API_KEY"
    IN key \in env

\* C30: getModelWithFallbacks returns the primary model when its provider
\* has an API key, otherwise the first fallback in list order whose provider
\* has one, and the primary model when none has; the value is always the
\* primary model or one of the fallbacks.
C30_FirstAvailableModel ==
    modelCall # NoModelCall =>
        LET p == modelCall.primaryModel
            f == modelCall.fallbacks
            r == modelCall.returned
        IN /\ HasKey(p) => r = p
           /\ (~HasKey(p) /\ \A i \in DOMAIN f : ~HasKey(f[i])) => r = p
           /\ ~HasKey(p) =>
                \A i \in DOMAIN f :
                    (HasKey(f[i]) /\ \A o \in 1..(i - 1) : ~HasKey(f[o]))
                        => r = f[i]
           /\ r = p \/ \E i \in DOMAIN f : r = f[i]

\* Seen by C30: the second fallback is returned, the primary model and the
\* first fallback having no key.
C30_Witness ==
    /\ modelCall # NoModelCall
    /\ Len(modelCall.fallbacks) = 2
    /\ ~HasKey(modelCall.primaryModel)
    /\ ~HasKey(modelCall.fallbacks[1])
    /\ HasKey(modelCall.fallbacks[2])
    /\ modelCall.returned = modelCall.fallbacks[2]
    /\ modelCall.returned # modelCall.primaryModel

====
